---- MODULE Spec2Model ----
(***************************************************************************)
(* SceneSage: scene segmentation of a subtitle track (detect_scenes) and   *)
(* the chunked, overlapping, asynchronous scene analysis                   *)
(* (process_scene_chunks_async / process_chunk / main) of scenesage.py.    *)
(***************************************************************************)
EXTENDS Integers, Sequences, FiniteSets, TLC

VARIABLES
    \* ---- detect_scenes ----
    subtitles,        \* the SubRipFile: a sequence of captions
    min_pause,        \* the integer threshold in seconds
    seg_pc,           \* position inside detect_scenes
    seg_i,            \* the loop index i (0-based, as in the code)
    scenes,           \* the list `scenes` being built
    current_scene,    \* the dict `current_scene`
    \* ---- process_scene_chunks_async / main ----
    total_scenes,     \* len(scenes) handed to the analyzer
    chunk_size,
    overlap,
    pc,               \* position inside process_scene_chunks_async
    i,                \* the window start of the chunk being processed
    chunk_no,         \* how many chunks have been started
    calls,            \* every analyze_scene_async invocation made so far
    completed,        \* call ids of the current chunk in completion order
    analyzed_scenes,  \* the list `analyzed_scenes`
    returned,         \* <<v>> once process_scene_chunks_async returned v
    main_pc,          \* position inside main()
    output_file,      \* <<v>> once main() wrote v to the JSON file
    \* ---- format_subrip_time / parse_time / format_time ----
    roundtrip         \* a timestamp taken through the three conversions

segVars == <<subtitles, min_pause, seg_pc, seg_i, scenes, current_scene>>
anaVars == <<total_scenes, chunk_size, overlap, pc, i, chunk_no, calls,
             completed, analyzed_scenes, returned, main_pc, output_file>>
vars == <<segVars, anaVars, roundtrip>>

\* ------------------------------------------------------------------------
\* Bounds of the model
\* ------------------------------------------------------------------------
MaxCaptions == 3
MaxPause == 2
MaxScenes == 5
MaxChunkSize == 3
MaxOverlap == 3

None == "None"

\* ------------------------------------------------------------------------
\* Timestamps and their text form
\* ------------------------------------------------------------------------
SubRipTime(h, m, s, ms) ==
    [hours |-> h, minutes |-> m, seconds |-> s, milliseconds |-> ms]

Digits == <<"0", "1", "2", "3", "4", "5", "6", "7", "8", "9">>

DigitChar(d) == Digits[d + 1]

IsDigit(c) == \E d \in 0..9 : Digits[d + 1] = c

CharDigit(c) == CHOOSE d \in 0..9 : Digits[d + 1] = c

\* Python's f"{n:02d}" and f"{n:03d}" for 0 <= n < 100 resp. 0 <= n < 1000
Pad2(n) == <<DigitChar(n \div 10), DigitChar(n % 10)>>

\* str(n) without zero fill
Pad3Unpadded(n) ==
    IF n >= 100
    THEN <<DigitChar(n \div 100), DigitChar((n \div 10) % 10), DigitChar(n % 10)>>
    ELSE IF n >= 10 THEN <<DigitChar(n \div 10), DigitChar(n % 10)>>
    ELSE <<DigitChar(n)>>

Pad3(n) == <<DigitChar(n \div 100), DigitChar((n \div 10) % 10), DigitChar(n % 10)>>

\* format_subrip_time: "HH:MM:SS,mmm" as a sequence of characters
format_subrip_time(time) ==
    Pad2(time.hours) \o <<":">> \o Pad2(time.minutes) \o <<":">>
        \o Pad2(time.seconds) \o <<",">> \o Pad3(time.milliseconds)

RECURSIVE DigitsValue(_)
DigitsValue(ds) ==
    IF Len(ds) = 0 THEN 0
    ELSE 10 * DigitsValue(SubSeq(ds, 1, Len(ds) - 1)) + CharDigit(ds[Len(ds)])

RECURSIVE Pow10(_)
Pow10(n) == IF n = 0 THEN 1 ELSE 10 * Pow10(n - 1)

ValueError == "ValueError"

\* a datetime of 1900-01-01 as Python keeps it (the second of the day stands
\* for hour, minute and second), and the outcome of a call that raised instead
DateTime(sec, us) == [raised |-> None, second |-> sec, microsecond |-> us]

Raised(exc) == [raised |-> exc, second |-> 0, microsecond |-> 0]

\* parse_time: datetime.strptime(s, "%H:%M:%S,%f") for texts with two-digit
\* hour, minute and second fields.  %f takes 1 to 6 fraction digits and reads
\* them as the leading digits of a 6-digit microsecond field.
parse_time(time_str) ==
    IF \/ Len(time_str) < 10 \/ Len(time_str) > 15
       \/ time_str[3] # ":" \/ time_str[6] # ":" \/ time_str[9] # ","
       \/ \E k \in {1, 2, 4, 5, 7, 8} \cup (10..Len(time_str)) :
              ~IsDigit(time_str[k])
    THEN Raised(ValueError)
    ELSE LET H == DigitsValue(SubSeq(time_str, 1, 2))
             M == DigitsValue(SubSeq(time_str, 4, 5))
             S == DigitsValue(SubSeq(time_str, 7, 8))
             frac == SubSeq(time_str, 10, Len(time_str))
             f == DigitsValue(frac) * Pow10(6 - Len(frac))
         IN  IF H > 23 \/ M > 59 \/ S > 59 THEN Raised(ValueError)
             ELSE DateTime((H * 60 + M) * 60 + S, f)

\* Python's f"{n:06d}" of strftime's %f, for 0 <= n < 10^6
Pad6(n) == Pad3(n \div 1000) \o Pad3(n % 1000)

\* format_time: dt.strftime("%H:%M:%S,%f")[:-3]
format_time(dt) ==
    LET full == Pad2(dt.second \div 3600) \o <<":">>
                    \o Pad2((dt.second \div 60) % 60) \o <<":">>
                    \o Pad2(dt.second % 60) \o <<",">> \o Pad6(dt.microsecond)
    IN  SubSeq(full, 1, Len(full) - 3)

\* (a - b) of two datetimes: a timedelta, normalised as Python keeps it
\* (0 <= seconds < 86400, 0 <= microseconds < 10^6, days of either sign)
TimeDelta(a, b) ==
    LET us == a.microsecond - b.microsecond
        sec == (a.second - b.second) + (us \div 1000000)
    IN  [days |-> sec \div 86400, seconds |-> sec % 86400,
         microseconds |-> us % 1000000]

\* `pause >= min_pause`, where pause = timedelta.total_seconds(), the float
\* ((days * 86400 + seconds) * 10^6 + microseconds) / 10^6, and min_pause is
\* an int.  The quotient is correctly rounded and the int is a float, so the
\* comparison agrees with the exact one, taken here on whole seconds first.
PauseSplitsStrict(delta, m) ==
    LET whole == delta.days * 86400 + delta.seconds
    IN  whole > m \/ (whole = m /\ delta.microseconds > 0)

PauseSplitsInverted(delta, m) ==
    LET whole == delta.days * 86400 + delta.seconds
    IN  whole < m \/ (whole = m /\ delta.microseconds = 0)

PauseSplits(delta, m) ==
    LET whole == delta.days * 86400 + delta.seconds
    IN  whole > m \/ (whole = m /\ delta.microseconds >= 0)

\* pause between caption `prev` and caption `current` (lines 70-71)
Pause(current, prev) ==
    TimeDelta(parse_time(format_subrip_time(current.start)),
              parse_time(format_subrip_time(prev.end)))

\* ------------------------------------------------------------------------
\* detect_scenes
\* ------------------------------------------------------------------------
\* the dict built at lines 59-63 and 76-80
NewSceneSwapped(c) == [start |-> c.end, end |-> c.start, text |-> c.text]

NewScene(c) == [start |-> c.start, end |-> c.end, text |-> c.text]

\* lines 83-84
ExtendSceneNoSeparator(cur, c) ==
    [cur EXCEPT !.end = c.end, !.text = @ \o c.text]

ExtendSceneKeepEnd(cur, c) ==
    [cur EXCEPT !.text = @ \o " " \o c.text]

ExtendScene(cur, c) ==
    [cur EXCEPT !.end = c.end, !.text = @ \o " " \o c.text]

NoScene == [start |-> None, end |-> None, text |-> ""]

\* detect_scenes as a function of its arguments, for a non-empty file: the
\* loop of lines 65-84 from 1-based caption k on, then lines 86-88
RECURSIVE DetectFrom(_, _, _, _, _)
DetectFrom(subs, m, k, done, cur) ==
    IF k > Len(subs) THEN Append(done, cur)
    ELSE IF PauseSplits(Pause(subs[k], subs[k - 1]), m)
         THEN DetectFrom(subs, m, k + 1, Append(done, cur), NewScene(subs[k]))
         ELSE DetectFrom(subs, m, k + 1, done, ExtendScene(cur, subs[k]))

SceneList(subs, m) == DetectFrom(subs, m, 2, <<>>, NewScene(subs[1]))

\* the timestamps captions are drawn from: they straddle an hour, minute and
\* second boundary, giving pauses of 0, 1 ms, 999 ms, 1000 ms and their
\* negatives
TimePool ==
    { SubRipTime(0, 59, 59, 1), SubRipTime(1, 0, 0, 0), SubRipTime(1, 0, 0, 1) }

\* the text of the k-th caption of a file: detect_scenes never inspects a
\* text, so one distinct text per position shows every loss, repetition or
\* reordering
TextPool == <<"a", "b", "c", "d", "e">>

\* the time spans of captions: any start and end, also overlapping, nested,
\* unsorted or ending before they start
Spans == [start : TimePool, end : TimePool]

\* the SubRipFile with the given spans
Captions(spans) ==
    [k \in 1..Len(spans) |->
        [start |-> spans[k].start, end |-> spans[k].end, text |-> TextPool[k]]]

RECURSIVE SeqsUpTo(_, _)
SeqsUpTo(S, n) ==
    IF n = 0 THEN {<<>>}
    ELSE LET shorter == SeqsUpTo(S, n - 1)
         IN  shorter \cup { Append(q, x) : q \in { r \in shorter : Len(r) = n - 1 }, x \in S }

\* no timestamp is being converted
InitRoundtripIdle ==
    roundtrip = [pc |-> "idle", time |-> None, text |-> <<>>,
                 parsed |-> Raised(None), text2 |-> <<>>]

InitSegIdle ==
    /\ subtitles = <<>>
    /\ min_pause = 0
    /\ seg_pc = "idle"
    /\ seg_i = 0
    /\ scenes = <<>>
    /\ current_scene = NoScene

InitSeg ==
    /\ \E spans \in SeqsUpTo(Spans, MaxCaptions) : subtitles = Captions(spans)
    /\ min_pause \in -1..MaxPause
    /\ seg_pc = "start"
    /\ seg_i = 0
    /\ scenes = <<>>
    /\ current_scene = NoScene

\* detect_scenes entered without the failing subtitles[0]: an empty file
\* falls through to the loop
DetectStartUnchecked ==
    /\ seg_pc = "start"
    /\ current_scene' = IF Len(subtitles) = 0 THEN NoScene
                        ELSE NewScene(subtitles[1])
    /\ seg_i' = 1
    /\ seg_pc' = "loop"
    /\ UNCHANGED <<subtitles, min_pause, scenes>>
    /\ UNCHANGED <<anaVars, roundtrip>>

\* lines 58-63: subtitles[0] raises IndexError on an empty file
DetectStart ==
    /\ seg_pc = "start"
    /\ IF Len(subtitles) = 0
       THEN /\ seg_pc' = "IndexError"
            /\ UNCHANGED <<seg_i, current_scene>>
       ELSE /\ current_scene' = NewScene(subtitles[1])
            /\ seg_i' = 1
            /\ seg_pc' = "loop"
    /\ UNCHANGED <<subtitles, min_pause, scenes>>
    /\ UNCHANGED <<anaVars, roundtrip>>

\* lines 65-84: one iteration of the loop, for Python index seg_i
DetectStep ==
    /\ seg_pc = "loop"
    /\ seg_i < Len(subtitles)
    /\ LET current == subtitles[seg_i + 1]
           prev == subtitles[seg_i]
           sc == parse_time(format_subrip_time(current.start))
           pe == parse_time(format_subrip_time(prev.end))
       IN  IF sc.raised # None \/ pe.raised # None
           THEN /\ seg_pc' = ValueError
                /\ UNCHANGED <<seg_i, scenes, current_scene>>
           ELSE /\ IF PauseSplits(Pause(current, prev), min_pause)
                   THEN /\ scenes' = Append(scenes, current_scene)
                        /\ current_scene' = NewScene(current)
                   ELSE /\ scenes' = scenes
                        /\ current_scene' = ExtendScene(current_scene, current)
                /\ seg_i' = seg_i + 1
                /\ seg_pc' = "loop"
    /\ UNCHANGED <<subtitles, min_pause>>
    /\ UNCHANGED <<anaVars, roundtrip>>

\* lines 86-88
DetectReturn ==
    /\ seg_pc = "loop"
    /\ seg_i >= Len(subtitles)
    /\ scenes' = Append(scenes, current_scene)
    /\ seg_pc' = "done"
    /\ UNCHANGED <<subtitles, min_pause, seg_i, current_scene>>
    /\ UNCHANGED <<anaVars, roundtrip>>

\* ------------------------------------------------------------------------
\* process_scene_chunks_async, process_chunk and main
\* ------------------------------------------------------------------------
Min(a, b) == IF a < b THEN a ELSE b

\* the step of range(0, total_scenes, chunk_size - overlap), line 183
StepNoOverlap(size, ov) == size

StepShort(size, ov) == size - ov - 1

Step(size, ov) == size - ov

\* chunk_end, line 185
ChunkEndUnclamped(start, size, total) == start + size

ChunkEnd(start, size, total) == Min(start + size, total)

\* whether range(0, total, step) still yields the value `start`
InRangeInclusive(start, total, step) ==
    IF step > 0 THEN start <= total ELSE start >= total

InRange(start, total, step) ==
    IF step > 0 THEN start < total ELSE start > total

\* the ids (positions in `calls`) of the invocations made for chunk c,
\* in submission order
RECURSIVE ChunkCalls(_, _)
ChunkCalls(cs, c) ==
    IF Len(cs) = 0 THEN <<>>
    ELSE LET rest == ChunkCalls(SubSeq(cs, 1, Len(cs) - 1), c)
         IN  IF cs[Len(cs)].chunk = c THEN Append(rest, Len(cs)) ELSE rest

\* the dict analyze_scene_async returns for invocation id (lines 158-164):
\* the scene's metadata plus the fields of this invocation's own LLM answer
AnalysisResultCached(cs, id) ==
    [scene |-> cs[id].scene,
     call |-> CHOOSE d \in 1..Len(cs) :
                  /\ cs[d].scene = cs[id].scene
                  /\ \A e \in 1..Len(cs) : cs[e].scene = cs[id].scene => d <= e]

AnalysisResult(cs, id) == [scene |-> cs[id].scene, call |-> id]

\* asyncio.gather(*tasks), line 176: the results in the order of the awaitables
GatherByCompletion(cs, submitted, done_order) ==
    [j \in 1..Len(submitted) |-> AnalysisResult(cs, done_order[j])]

Gather(cs, submitted, done_order) ==
    [j \in 1..Len(submitted) |-> AnalysisResult(cs, submitted[j])]

\* gather resumes its awaiter with a result once every task has a result
GatherSettled(cs, ids) ==
    \A j \in 1..Len(ids) : cs[ids[j]].state \in {"ok", "failed"}

GatherFirstDone(cs, ids) ==
    /\ \E j \in 1..Len(ids) : cs[ids[j]].state = "ok"
    /\ \A j \in 1..Len(ids) : cs[ids[j]].state # "failed"

GatherComplete(cs, ids) ==
    \A j \in 1..Len(ids) : cs[ids[j]].state = "ok"

\* gather propagates the first exception raised by any of its tasks
GatherFailed(cs, ids) ==
    \E j \in 1..Len(ids) : cs[ids[j]].state = "failed"

InitAnaIdle ==
    /\ total_scenes = 0
    /\ chunk_size = 0
    /\ overlap = 0
    /\ pc = "idle"
    /\ i = 0
    /\ chunk_no = 0
    /\ calls = <<>>
    /\ completed = <<>>
    /\ analyzed_scenes = <<>>
    /\ returned = <<>>
    /\ main_pc = "idle"
    /\ output_file = <<>>

InitAnaWith(n, size, ov) ==
    /\ total_scenes = n
    /\ chunk_size = size
    /\ overlap = ov
    /\ pc = "start"
    /\ i = 0
    /\ chunk_no = 0
    /\ calls = <<>>
    /\ completed = <<>>
    /\ analyzed_scenes = <<>>
    /\ returned = <<>>
    /\ main_pc = "analyzing"
    /\ output_file = <<>>

InitAna ==
    \E n \in 0..MaxScenes, size \in 1..MaxChunkSize, ov \in 0..MaxOverlap :
        InitAnaWith(n, size, ov)

\* lines 180-183: range() raises ValueError on a zero step
RangeStart ==
    /\ pc = "start"
    /\ IF Step(chunk_size, overlap) = 0
       THEN pc' = ValueError
       ELSE pc' = "loop"
    /\ UNCHANGED <<total_scenes, chunk_size, overlap, i, chunk_no, calls,
                   completed, analyzed_scenes, returned, main_pc, output_file>>
    /\ UNCHANGED <<segVars, roundtrip>>

\* lines 185-189 and 172-176: slice the chunk, create one analyze_scene_async
\* coroutine per scene in order, hand them all to gather and suspend
StartChunk ==
    /\ pc = "loop"
    /\ InRange(i, total_scenes, Step(chunk_size, overlap))
    /\ LET chunk_end == ChunkEnd(i, chunk_size, total_scenes)
           n == IF chunk_end > i THEN chunk_end - i ELSE 0
       IN  calls' = calls \o [j \in 1..n |->
                        [chunk |-> chunk_no + 1, pos |-> j - 1,
                         scene |-> i + j - 1, state |-> "running"]]
    /\ chunk_no' = chunk_no + 1
    /\ completed' = <<>>
    /\ pc' = "gather"
    /\ UNCHANGED <<total_scenes, chunk_size, overlap, i, analyzed_scenes,
                   returned, main_pc, output_file>>
    /\ UNCHANGED <<segVars, roundtrip>>

\* one analyze_scene_async task finishes: it returns its dict (line 164) or
\* raises (line 168); tasks finish in any order
AnalysisCompletes(id, outcome) ==
    /\ pc = "gather"
    /\ calls[id].state = "running"
    /\ calls' = [calls EXCEPT ![id].state = outcome]
    /\ completed' = Append(completed, id)
    /\ UNCHANGED <<total_scenes, chunk_size, overlap, pc, i, chunk_no,
                   analyzed_scenes, returned, main_pc, output_file>>
    /\ UNCHANGED <<segVars, roundtrip>>

AnalysisReturns == \E id \in 1..Len(calls) : AnalysisCompletes(id, "ok")

AnalysisRaises == \E id \in 1..Len(calls) : AnalysisCompletes(id, "failed")

\* lines 176, 189-190 and the loop increment of line 183
GatherReturns ==
    /\ pc = "gather"
    /\ LET ids == ChunkCalls(calls, chunk_no)
       IN  /\ GatherComplete(calls, ids)
           /\ analyzed_scenes' = analyzed_scenes \o Gather(calls, ids, completed)
    /\ i' = i + Step(chunk_size, overlap)
    /\ pc' = "loop"
    /\ UNCHANGED <<total_scenes, chunk_size, overlap, chunk_no, calls,
                   completed, returned, main_pc, output_file>>
    /\ UNCHANGED <<segVars, roundtrip>>

\* the exception of a failed task leaves gather, process_chunk and
\* process_scene_chunks_async; asyncio.run (line 196) then cancels what is
\* still running
GatherRaises ==
    /\ pc = "gather"
    /\ GatherFailed(calls, ChunkCalls(calls, chunk_no))
    /\ calls' = [id \in 1..Len(calls) |->
                    IF calls[id].state = "running"
                    THEN [calls[id] EXCEPT !.state = "cancelled"]
                    ELSE calls[id]]
    /\ pc' = "failed"
    /\ UNCHANGED <<total_scenes, chunk_size, overlap, i, chunk_no, completed,
                   analyzed_scenes, returned, main_pc, output_file>>
    /\ UNCHANGED <<segVars, roundtrip>>

\* line 192
ReturnAnalyzed ==
    /\ pc = "loop"
    /\ ~InRange(i, total_scenes, Step(chunk_size, overlap))
    /\ returned' = <<analyzed_scenes>>
    /\ pc' = "done"
    /\ UNCHANGED <<total_scenes, chunk_size, overlap, i, chunk_no, calls,
                   completed, analyzed_scenes, main_pc, output_file>>
    /\ UNCHANGED <<segVars, roundtrip>>

\* main, lines 225-231: json.dump of the returned list
MainWrites ==
    /\ main_pc = "analyzing"
    /\ pc = "done"
    /\ output_file' = returned
    /\ main_pc' = "complete"
    /\ UNCHANGED <<total_scenes, chunk_size, overlap, pc, i, chunk_no, calls,
                   completed, analyzed_scenes, returned>>
    /\ UNCHANGED <<segVars, roundtrip>>

\* main, lines 233-236
MainExits ==
    /\ main_pc = "analyzing"
    /\ pc \in {"failed", ValueError}
    /\ main_pc' = "exit1"
    /\ UNCHANGED <<total_scenes, chunk_size, overlap, pc, i, chunk_no, calls,
                   completed, analyzed_scenes, returned, output_file>>
    /\ UNCHANGED <<segVars, roundtrip>>

Init == InitSegIdle /\ InitAna /\ InitRoundtripIdle

Next ==
    \/ RangeStart
    \/ StartChunk
    \/ AnalysisReturns
    \/ AnalysisRaises
    \/ GatherReturns
    \/ GatherRaises
    \/ ReturnAnalyzed
    \/ MainWrites
    \/ MainExits

Spec == Init /\ [][Next]_vars

\* the event loop keeps running whatever can run: a coroutine that can
\* resume is resumed, and an analysis that was started completes (returns or
\* raises)
Fairness == WF_vars(Next)

SpecFair == Init /\ [][Next]_vars /\ Fairness

\* the scenario of 7 scenes with the default chunk_size and overlap
InitScenario == InitSegIdle /\ InitAnaWith(7, 5, 2) /\ InitRoundtripIdle

SpecScenario == InitScenario /\ [][Next]_vars

InitSegment == InitSeg /\ InitAnaIdle /\ InitRoundtripIdle

NextSeg ==
    \/ DetectStart
    \/ DetectStep
    \/ DetectReturn

SpecSeg == InitSegment /\ [][NextSeg]_vars

\* ------------------------------------------------------------------------
\* The timestamp conversions on their own
\* ------------------------------------------------------------------------
\* Timestamps of the day with small, large, one-digit and two-digit fields
TimestampPool ==
    { SubRipTime(h, m, sec, ms) :
        h \in {0, 9, 23}, m \in {0, 59}, sec \in {0, 7, 59},
        ms \in {0, 5, 50, 999} }

InitRoundtrip ==
    \E t \in TimestampPool :
        roundtrip = [pc |-> "start", time |-> t, text |-> <<>>,
                     parsed |-> Raised(None), text2 |-> <<>>]

InitTime == InitSegIdle /\ InitAnaIdle /\ InitRoundtrip

\* format_subrip_time(time), lines 52-54
FormatTimestamp ==
    /\ roundtrip.pc = "start"
    /\ roundtrip' = [roundtrip EXCEPT !.pc = "formatted",
                                      !.text = format_subrip_time(roundtrip.time)]
    /\ UNCHANGED <<segVars, anaVars>>

\* parse_time(text), lines 44-46
ParseTimestamp ==
    /\ roundtrip.pc = "formatted"
    /\ LET dt == parse_time(roundtrip.text)
       IN  roundtrip' = [roundtrip EXCEPT
                            !.pc = IF dt.raised = None THEN "parsed" ELSE dt.raised,
                            !.parsed = dt]
    /\ UNCHANGED <<segVars, anaVars>>

\* format_time(parsed), lines 48-50
ReformatTimestamp ==
    /\ roundtrip.pc = "parsed"
    /\ roundtrip' = [roundtrip EXCEPT !.pc = "reformatted",
                                      !.text2 = format_time(roundtrip.parsed)]
    /\ UNCHANGED <<segVars, anaVars>>

NextTime ==
    \/ FormatTimestamp
    \/ ParseTimestamp
    \/ ReformatTimestamp

SpecTime == InitTime /\ [][NextTime]_vars

\* ------------------------------------------------------------------------
\* Properties of detect_scenes (checked under SpecSeg)
\* ------------------------------------------------------------------------
\* a timestamp as its exact millisecond of the day
OrdinalMs(t) ==
    ((t.hours * 60 + t.minutes) * 60 + t.seconds) * 1000 + t.milliseconds

\* the exact pause in ms between caption k and caption k + 1 (1-based)
PauseMs(k) == OrdinalMs(subtitles[k + 1].start) - OrdinalMs(subtitles[k].end)

\* the captions after which the pause reaches the threshold
SplitPoints == { k \in 1..(Len(subtitles) - 1) : PauseMs(k) >= min_pause * 1000 }

\* C1: for a non-empty caption sequence and min_pause >= 0, detect_scenes
\* returns exactly 1 + (number of pauses >= min_pause) scenes; a pause equal
\* to min_pause splits, a smaller one does not.
C1_SceneCount ==
    (seg_pc = "done" /\ min_pause >= 0)
        => Len(scenes) = 1 + Cardinality(SplitPoints)

\* three captions, a first pause of exactly min_pause (a split) and a second
\* pause 1 ms short of it (a merge)
C1_Witness ==
    /\ seg_pc = "done"
    /\ min_pause = 1
    /\ Len(subtitles) = 3
    /\ PauseMs(1) = 1000
    /\ PauseMs(2) = 999
    /\ Len(scenes) = 2

\* the j-th smallest element of a set of cut points
CutAt(cuts, j) == CHOOSE c \in cuts : Cardinality({ d \in cuts : d <= c }) = j

RunFirst(cuts, j) == IF j = 1 THEN 1 ELSE CutAt(cuts, j - 1) + 1

RunLast(cuts, j, n) == IF j = Cardinality(cuts) + 1 THEN n ELSE CutAt(cuts, j)

RECURSIVE JoinTexts(_, _, _)
JoinTexts(subs, a, b) ==
    IF a = b THEN subs[a].text
    ELSE JoinTexts(subs, a, b - 1) \o " " \o subs[b].text

\* C2: the scenes partition the captions into consecutive runs that, put one
\* after the other, are the captions in their order; each scene has the start
\* of its first caption, the end of its last caption and its captions' texts
\* joined by single spaces.
C2_Partition ==
    seg_pc = "done" =>
        \E cuts \in SUBSET (1..(Len(subtitles) - 1)) :
            /\ Len(scenes) = Cardinality(cuts) + 1
            /\ \A j \in 1..Len(scenes) :
                LET a == RunFirst(cuts, j)
                    b == RunLast(cuts, j, Len(subtitles))
                IN  /\ scenes[j].start = subtitles[a].start
                    /\ scenes[j].end = subtitles[b].end
                    /\ scenes[j].text = JoinTexts(subtitles, a, b)

\* three captions in two scenes, the first scene a merge of two captions
C2_Witness ==
    /\ seg_pc = "done"
    /\ Len(subtitles) = 3
    /\ Len(scenes) = 2
    /\ scenes[1].text = "a b"
    /\ scenes[1].end = subtitles[2].end
    /\ scenes[2].text = "c"

\* ------------------------------------------------------------------------
\* Properties of process_scene_chunks_async (checked under Spec)
\* ------------------------------------------------------------------------
ValidConfig == chunk_size >= 2 /\ 0 <= overlap /\ overlap < chunk_size

CallIds == 1..Len(calls)

\* the original scene index of every entry of a result list
SceneIndices(results) == [k \in 1..Len(results) |-> results[k].scene]

\* how many times scene s was handed to analyze_scene_async
Invocations(s) == Cardinality({ id \in CallIds : calls[id].scene = s })

\* how many entries of a result list are results for scene s
Occurrences(results, s) ==
    Cardinality({ k \in 1..Len(results) : results[k].scene = s })

\* the k-th window (k = 0, 1, ...) of the chunking scheme: scenes
\* [k * step : min(k * step + chunk_size, total_scenes)]
WindowStart(k) == k * (chunk_size - overlap)

WindowStop(k) ==
    IF WindowStart(k) + chunk_size < total_scenes
    THEN WindowStart(k) + chunk_size
    ELSE total_scenes

WindowScenes(k) ==
    [j \in 1..(WindowStop(k) - WindowStart(k)) |-> WindowStart(k) + j - 1]

RECURSIVE WindowsConcat(_)
WindowsConcat(k) ==
    IF WindowStart(k) >= total_scenes THEN <<>>
    ELSE WindowScenes(k) \o WindowsConcat(k + 1)

RECURSIVE WindowsTotal(_)
WindowsTotal(k) ==
    IF WindowStart(k) >= total_scenes THEN 0
    ELSE (WindowStop(k) - WindowStart(k)) + WindowsTotal(k + 1)

\* C3: for a valid configuration and a run without failure the output is the
\* concatenation of the per-scene results of the windows, in window order and
\* scene order inside a window; its length is the sum of the window sizes
\* (duplicates are kept).
C3_WindowConcat ==
    (pc = "done" /\ ValidConfig) =>
        /\ SceneIndices(returned[1]) = WindowsConcat(0)
        /\ Len(returned[1]) = WindowsTotal(0)

\* a finished run whose windows overlap, so that the output is longer than
\* the scene list
C3_Witness ==
    /\ pc = "done"
    /\ ValidConfig
    /\ overlap > 0
    /\ chunk_no >= 3
    /\ Len(returned[1]) > total_scenes

\* C4: with overlap = 0 and chunk_size >= 2 there are exactly len(scenes)
\* results, every scene is analysed exactly once and result k is the analysis
\* of scenes[k].
C4_NoOverlap ==
    (pc = "done" /\ overlap = 0 /\ chunk_size >= 2) =>
        /\ Len(returned[1]) = total_scenes
        /\ \A s \in 0..(total_scenes - 1) : Invocations(s) = 1
        /\ Len(calls) = total_scenes
        /\ \A k \in 0..(total_scenes - 1) : returned[1][k + 1].scene = k

\* a finished run of several chunks without overlap, the last one short
C4_Witness ==
    /\ pc = "done"
    /\ overlap = 0
    /\ chunk_size = 2
    /\ total_scenes = 5
    /\ chunk_no = 3
    /\ Len(returned[1]) = 5

\* the windows [first : last + 1] of the chunks processed so far, read off
\* the invocations that were made for each chunk
ProcessedWindow(c) ==
    LET members == { calls[id].scene : id \in { d \in CallIds : calls[d].chunk = c } }
    IN  <<CHOOSE s \in members : \A t \in members : s <= t,
          (CHOOSE s \in members : \A t \in members : s >= t) + 1>>

ProcessedWindows == [c \in 1..chunk_no |-> ProcessedWindow(c)]

\* C5 as stated: 7 scenes, chunk_size 5, overlap 2 are processed as exactly
\* the windows [0:5] and [3:7], with 10 results, scenes 3 and 4 twice.
C5_TwoWindows ==
    pc = "done" =>
        /\ ProcessedWindows = << <<0, 5>>, <<3, 7>> >>
        /\ Len(returned[1]) = 10
        /\ Occurrences(returned[1], 3) = 2
        /\ Occurrences(returned[1], 4) = 2

\* C5 amended: 7 scenes, chunk_size 5, overlap 2 are processed as the three
\* windows [0:5], [3:7] and [6:7] (step 3); the output has length 10
\* (5 + 4 + 1) and scenes 3, 4 and 6 appear twice, every other scene once.
C5_ThreeWindows ==
    pc = "done" =>
        /\ ProcessedWindows = << <<0, 5>>, <<3, 7>>, <<6, 7>> >>
        /\ Len(returned[1]) = 10
        /\ \A s \in {3, 4, 6} : Occurrences(returned[1], s) = 2
        /\ \A s \in {0, 1, 2, 5} : Occurrences(returned[1], s) = 1

C5_Witness ==
    /\ pc = "done"
    /\ total_scenes = 7 /\ chunk_size = 5 /\ overlap = 2
    /\ chunk_no = 3
    /\ SceneIndices(returned[1]) = <<0, 1, 2, 3, 4, 3, 4, 5, 6, 6>>

\* C6: a call with overlap >= chunk_size is rejected before any analysis is
\* started: no analysis is invoked and no result list is returned.
C6_Rejected ==
    overlap >= chunk_size =>
        /\ calls = <<>>
        /\ pc # "done"
        /\ returned = <<>>

\* C7: once a scene analysis has failed the call returns nothing, neither the
\* results of the failing chunk's other scenes nor those of earlier chunks,
\* and main writes no output file.
C7_NoPartialOutput ==
    (\E id \in CallIds : calls[id].state = "failed") =>
        /\ pc \in {"gather", "failed"}
        /\ returned = <<>>
        /\ output_file = <<>>
        /\ main_pc # "complete"

\* a failure in a later chunk, after an earlier chunk was gathered and
\* another scene of the failing chunk was analysed, ending main with exit 1
C7_Witness ==
    /\ pc = "failed"
    /\ main_pc = "exit1"
    /\ chunk_no >= 2
    /\ analyzed_scenes # <<>>
    /\ \E id \in CallIds : calls[id].chunk = chunk_no /\ calls[id].state = "ok"
    /\ \E id \in CallIds : calls[id].chunk = chunk_no /\ calls[id].state = "failed"

\* C8: no analysis of a later chunk exists (is created or started) unless
\* every analysis of every earlier chunk has completed.
C8_ChunkBarrier ==
    \A a, b \in CallIds :
        calls[a].chunk < calls[b].chunk => calls[a].state = "ok"

\* the analyses of a second chunk are in flight
C8_Witness ==
    /\ pc = "gather"
    /\ chunk_no >= 2
    /\ Cardinality({ id \in CallIds : calls[id].state = "running" }) >= 2

\* the window size of chunk c, whose window starts at (c - 1) * step
SubmittedFor(c) == { id \in CallIds : calls[id].chunk = c }

\* C9: all analyses of a chunk are submitted together, before any of them
\* completes, and whatever the completion order result j of the chunk is the
\* analysis of the chunk's j-th scene.
C9_PositionalGather ==
    /\ \A c \in 1..chunk_no :
          \A id \in SubmittedFor(c) :
              /\ calls[id].pos < Cardinality(SubmittedFor(c))
              /\ calls[id].scene = ProcessedWindow(c)[1] + calls[id].pos
              /\ ProcessedWindow(c)[2] - ProcessedWindow(c)[1]
                     = Cardinality(SubmittedFor(c))
    /\ \A k \in 1..Len(analyzed_scenes) :
          LET r == analyzed_scenes[k]
              c == calls[r.call]
              before == Cardinality({ id \in CallIds : calls[id].chunk < c.chunk })
          IN  /\ r.scene = c.scene
              /\ k = before + c.pos + 1

\* a chunk was gathered although its analyses completed in the reverse of the
\* submission order
C9_Witness ==
    /\ pc = "loop"
    /\ Len(completed) >= 3
    /\ \A j \in 1..(Len(completed) - 1) : completed[j] > completed[j + 1]
    /\ Len(analyzed_scenes) >= 3

NonDecreasing(q) == \A k \in 1..(Len(q) - 1) : q[k] <= q[k + 1]

SortedByStart ==
    \A k \in 1..(Len(subtitles) - 1) :
        OrdinalMs(subtitles[k].start) <= OrdinalMs(subtitles[k + 1].start)

LaterOf(t, u) == IF OrdinalMs(t) >= OrdinalMs(u) THEN t ELSE u

\* a loop iteration that processes a caption starting before the previous
\* caption's end, in a file sorted by start, with min_pause >= 0
OverlappingStep ==
    /\ seg_pc = "loop"
    /\ seg_pc' = "loop"
    /\ seg_i' = seg_i + 1
    /\ SortedByStart
    /\ min_pause >= 0
    /\ OrdinalMs(subtitles[seg_i + 1].start) < OrdinalMs(subtitles[seg_i].end)

\* C11 as stated: an overlapping caption never opens a new scene and the
\* scene's end becomes the later of its previous end and the caption's end.
C11_LaterEnd ==
    [][OverlappingStep =>
          /\ scenes' = scenes
          /\ current_scene'.end
                 = LaterOf(current_scene.end, subtitles[seg_i + 1].end)]_vars

\* C11 amended: an overlapping caption never opens a new scene and the
\* scene's end becomes the merged caption's end, which is the later of the two
\* only if the caption does not end before the scene's previous end.
C11_MergedEnd ==
    [][OverlappingStep =>
          /\ scenes' = scenes
          /\ current_scene'.start = current_scene.start
          /\ current_scene'.end = subtitles[seg_i + 1].end
          /\ OrdinalMs(subtitles[seg_i + 1].end) >= OrdinalMs(current_scene.end)
                 => current_scene'.end
                        = LaterOf(current_scene.end, subtitles[seg_i + 1].end)]_vars

\* a caption nested in the previous one was merged: the scene now ends before
\* the end of its first caption
C11_Witness ==
    /\ seg_pc = "loop"
    /\ seg_i = 2
    /\ SortedByStart
    /\ min_pause >= 0
    /\ OrdinalMs(subtitles[2].start) < OrdinalMs(subtitles[1].end)
    /\ OrdinalMs(subtitles[2].end) < OrdinalMs(subtitles[1].end)
    /\ scenes = <<>>
    /\ current_scene.end = subtitles[2].end

\* C12: detect_scenes on zero captions raises at once (IndexError); it never
\* enters the loop and never returns, so no empty scene list comes back.
C12_EmptyRaises ==
    /\ Len(subtitles) = 0 => (seg_pc \in {"start", "IndexError"} /\ scenes = <<>>)
    /\ seg_pc = "done" => scenes # <<>>

C12_Witness ==
    /\ Len(subtitles) = 0
    /\ seg_pc = "IndexError"
    /\ scenes = <<>>

ValidCaptions ==
    \A k \in 1..Len(subtitles) :
        OrdinalMs(subtitles[k].start) <= OrdinalMs(subtitles[k].end)

\* C13: for a non-empty file sorted by start whose captions have
\* start <= end, detect_scenes returns at least one scene, every scene has
\* start <= end and the scenes are in ascending order of start.
C13_SceneInvariants ==
    (seg_pc = "done" /\ SortedByStart /\ ValidCaptions) =>
        /\ Len(scenes) >= 1
        /\ \A j \in 1..Len(scenes) :
              OrdinalMs(scenes[j].start) <= OrdinalMs(scenes[j].end)
        /\ \A j \in 1..(Len(scenes) - 1) :
              OrdinalMs(scenes[j].start) <= OrdinalMs(scenes[j + 1].start)

\* three sorted captions in two scenes, the first scene a merge
C13_Witness ==
    /\ seg_pc = "done"
    /\ SortedByStart
    /\ ValidCaptions
    /\ Len(subtitles) = 3
    /\ Len(scenes) = 2
    /\ OrdinalMs(scenes[1].start) < OrdinalMs(scenes[1].end)
    /\ OrdinalMs(scenes[1].start) < OrdinalMs(scenes[2].start)

\* C16: for fixed captions the number of scenes does not grow with
\* min_pause: the finished run has at most as many scenes as detect_scenes
\* gives for any smaller threshold and at least as many as for any larger one.
C16_Monotone ==
    seg_pc = "done" =>
        /\ scenes = SceneList(subtitles, min_pause)
        /\ \A m \in -1..(MaxPause + 1) :
              /\ m <= min_pause
                     => Len(SceneList(subtitles, m)) >= Len(scenes)
              /\ m >= min_pause
                     => Len(SceneList(subtitles, m)) <= Len(scenes)

\* three scenes at threshold 0 that become two at 1 and one at 2
C16_Witness ==
    /\ seg_pc = "done"
    /\ min_pause = 0
    /\ Len(scenes) = 3
    /\ Len(SceneList(subtitles, 1)) = 2
    /\ Len(SceneList(subtitles, 2)) = 1

\* ------------------------------------------------------------------------
\* Further properties of process_scene_chunks_async
\* ------------------------------------------------------------------------
\* C14: a chunk_size below 2 (or a negative min_pause) is rejected before any
\* analysis work starts: no analysis is invoked and no result is produced.
C14_Rejected ==
    chunk_size < 2 =>
        /\ calls = <<>>
        /\ pc # "done"
        /\ returned = <<>>

\* the scenes submitted for chunk c
ChunkScenes(c) == { calls[id].scene : id \in SubmittedFor(c) }

Shared(c) == Cardinality(ChunkScenes(c) \cap ChunkScenes(c + 1))

\* C15 as stated: with a valid configuration and overlap > 0, any two
\* consecutive chunks share exactly overlap scenes.
C15_SharedOverlap ==
    (ValidConfig /\ overlap > 0) =>
        \A c \in 1..(chunk_no - 1) : Shared(c) = overlap

\* C15 amended: two consecutive chunks share exactly overlap scenes when the
\* earlier one is full (chunk_size scenes); when the earlier one is cut short
\* by the end of the scene list they share all scenes of the later chunk, at
\* most overlap: in every case min(overlap, size of the later chunk).
C15_SharedUpToOverlap ==
    (ValidConfig /\ overlap > 0) =>
        \A c \in 1..(chunk_no - 1) :
            /\ Shared(c) = Min(overlap, Cardinality(ChunkScenes(c + 1)))
            /\ Cardinality(ChunkScenes(c)) = chunk_size => Shared(c) = overlap
            /\ Cardinality(ChunkScenes(c)) < chunk_size
                   => Shared(c) = Cardinality(ChunkScenes(c + 1))

\* two full chunks sharing overlap scenes, then a short last chunk sharing
\* fewer with its predecessor
C15_Witness ==
    /\ ValidConfig
    /\ overlap >= 2
    /\ chunk_no >= 3
    /\ Shared(1) = overlap
    /\ Shared(chunk_no - 1) < overlap

\* C18: once a scene analysis has failed, no analysis is submitted any more:
\* the failed scene is not retried and no later chunk is started.
C18_NoRetryNoContinue ==
    [][(\E id \in CallIds : calls[id].state = "failed")
           => Len(calls') = Len(calls)]_vars

\* the run ended on a failure in its first chunk although scenes beyond that
\* chunk were still to be analysed
C18_Witness ==
    /\ pc = "failed"
    /\ ValidConfig
    /\ chunk_no = 1
    /\ i + chunk_size < total_scenes
    /\ Cardinality({ id \in CallIds : calls[id].state = "failed" }) = 1
    /\ Len(calls) = chunk_size

\* total_chunks as app.py computes it (line 134)
TotalChunks ==
    (total_scenes + chunk_size - overlap - 1) \div (chunk_size - overlap)

\* C19: with 0 <= overlap < chunk_size, if every analysis completes the call
\* finishes, and when it returns it has processed exactly
\* ceil(len(scenes) / (chunk_size - overlap)) chunks.
C19_Terminates ==
    /\ <>(~(0 <= overlap /\ overlap < chunk_size) \/ pc \in {"done", "failed"})
    /\ []((0 <= overlap /\ overlap < chunk_size /\ pc = "done")
              => chunk_no = TotalChunks)

\* a run of several chunks that returned
C19_Witness ==
    /\ pc = "done"
    /\ overlap > 0 /\ overlap < chunk_size
    /\ total_scenes = MaxScenes
    /\ chunk_no = TotalChunks
    /\ chunk_no >= 3

\* the number of windows of the chunking scheme that contain scene s
WindowsContaining(s) ==
    Cardinality({ k \in 0..total_scenes :
                    /\ WindowStart(k) < total_scenes
                    /\ WindowStart(k) <= s
                    /\ s < WindowStop(k) })

\* C20: for a valid configuration and a run without failure every scene is
\* submitted at least once, exactly once per window that contains it, and
\* every output entry is the result of an invocation of its own.
C20_OneCallPerEntry ==
    (pc = "done" /\ ValidConfig) =>
        /\ \A s \in 0..(total_scenes - 1) :
              /\ Invocations(s) >= 1
              /\ Invocations(s) = WindowsContaining(s)
              /\ \A c \in 1..chunk_no :
                    Cardinality({ id \in SubmittedFor(c) : calls[id].scene = s }) <= 1
        /\ Len(calls) = Len(returned[1])
        /\ Cardinality({ returned[1][k].call : k \in 1..Len(returned[1]) })
               = Len(returned[1])
        /\ \A k \in 1..Len(returned[1]) :
              calls[returned[1][k].call].scene = returned[1][k].scene

\* a finished run in which some scene was analysed twice, by two invocations
C20_Witness ==
    /\ pc = "done"
    /\ ValidConfig
    /\ \E s \in 0..(total_scenes - 1) : Invocations(s) = 2
    /\ \E k, l \in 1..Len(returned[1]) :
          /\ k # l
          /\ returned[1][k].scene = returned[1][l].scene
          /\ returned[1][k].call # returned[1][l].call

\* ------------------------------------------------------------------------
\* Properties of the timestamp conversions (checked under SpecTime)
\* ------------------------------------------------------------------------
\* C17: a timestamp of the day is formatted as the 12 characters
\* HH:MM:SS,mmm; parsing that text gives the same millisecond-exact value,
\* and formatting the parsed value gives the same text again.
C17_RoundTrip ==
    /\ roundtrip.pc \in {"formatted", "parsed", "reformatted"} =>
          /\ Len(roundtrip.text) = 12
          /\ roundtrip.text[3] = ":" /\ roundtrip.text[6] = ":"
          /\ roundtrip.text[9] = ","
    /\ roundtrip.pc # ValueError
    /\ roundtrip.pc \in {"parsed", "reformatted"} =>
          /\ roundtrip.parsed.raised = None
          /\ roundtrip.parsed.microsecond % 1000 = 0
          /\ roundtrip.parsed.second * 1000 + roundtrip.parsed.microsecond \div 1000
                 = OrdinalMs(roundtrip.time)
    /\ roundtrip.pc = "reformatted" => roundtrip.text2 = roundtrip.text

\* 23:59:59,005 went through the three conversions
C17_Witness ==
    /\ roundtrip.pc = "reformatted"
    /\ roundtrip.time = SubRipTime(23, 59, 59, 5)
    /\ roundtrip.text = <<"2", "3", ":", "5", "9", ":", "5", "9", ",", "0", "0", "5">>
    /\ roundtrip.parsed.second = 86399
    /\ roundtrip.parsed.microsecond = 5000
    /\ roundtrip.text2 = roundtrip.text

\* ------------------------------------------------------------------------
\* Analyses in flight (checked under Spec)
\* ------------------------------------------------------------------------
\* the analyses that were started and have neither returned nor raised nor
\* been cancelled
InFlight == { id \in CallIds : calls[id].state = "running" }

\* C21: in every state of a run at most chunk_size analyses are started and
\* not yet completed, and they all belong to one chunk (the current one).
C21_InFlightBound ==
    /\ Cardinality(InFlight) <= chunk_size
    /\ \A a, b \in InFlight : calls[a].chunk = calls[b].chunk
    /\ \A a \in InFlight : calls[a].chunk = chunk_no

\* a full later chunk is in flight: chunk_size analyses, none completed yet,
\* after the analyses of the earlier chunks all returned
C21_Witness ==
    /\ pc = "gather"
    /\ chunk_size = MaxChunkSize
    /\ chunk_no = 2
    /\ completed = <<>>
    /\ Cardinality(InFlight) = chunk_size
    /\ Len(calls) > Cardinality(InFlight)

====
